---- MODULE Spec2Model ----
(***************************************************************************)
(* Model of the ingress service (src/ingress/ingress.cpp): command line   *)
(* parsing, start-up against the store and the broker, and the blocking   *)
(* receive / parse / write loop of main.  The broker and the store are    *)
(* external libraries; every call to them is recorded in `log`, and each  *)
(* call may return normally or throw the library's exception type.        *)
(*                                                                         *)
(* Model of the visualization tool (the revision with the Db wrapper):    *)
(* the render thread with its connect dialog and UpdateData, the          *)
(* background read tasks started with std::async, the mutex and the       *)
(* connection handle of Db, and the store the tasks query.                *)
(*                                                                         *)
(* Model of the sensor simulator (src/fake-dht/fake-dht.cpp): its main,   *)
(* its MemoryPersistence, and the broker that passes what it publishes to *)
(* the subscription of the ingress service.                               *)
(***************************************************************************)
EXTENDS Integers, Sequences, FiniteSets, TLC

VARIABLES
    argv,         \* the command line; argv[1] is the executable (C index 0)
    config,       \* main's `config`
    pc,           \* position of main
    exitStatus,   \* NoExit while running, else the process exit status
    res,          \* connect response: <<>> before connect, else <<isSessionPresent>>
    msg,          \* main's `msg`: <<>> for nullptr, else <<payload>>
    temperature,  \* main's `temperature`
    humidity,     \* main's `humidity`
    errMsg,       \* main's `errMsg`
    ret,          \* return of the last ParseMqttPayload call of this iteration
    log           \* every call made to Usage and to the broker / store client, in order

\* the visualization tool
VARIABLES
    rpc,            \* position of the render thread
    showConnDialog, \* State::showConnDialog
    errorMsg,       \* the static errorMsg of DrawConnectDialog
    dbLocked,       \* Db::m is held
    dbHandle,       \* Db::db: 0 for the empty pointer, else the n-th handle made
    future,         \* per series, State::temperatureFuture / humidityFuture and its task
    released,       \* per series, the task of the future value being replaced by an assignment
    cursor,         \* per series, State::temperatureCursor / humidityCursor
    timeSeries,     \* per series, the time stamps of State::temperatureSeries / humiditySeries
    store,          \* per series, the time stamps of the points in the store
    ahead,          \* per series, the points that were in the store later than the cursor
    connects        \* number of clicks on the Connect button

ingressVars ==
    <<argv, config, pc, exitStatus, res, msg, temperature, humidity, errMsg, ret, log>>

guiVars ==
    <<rpc, showConnDialog, errorMsg, dbLocked, dbHandle, future, released,
      cursor, timeSeries, store, ahead, connects>>

\* the sensor simulator
VARIABLES
    simArgv,        \* the command line of the simulator
    simPc,          \* position in main of the simulator
    simExit,        \* value returned by main of the simulator, NoExit while it runs
    published,      \* the messages handed to client.publish, in order
    routed,         \* number of published messages the broker has dealt with
    inbox,          \* the payloads the broker has queued for the ingress session
    isOpen,         \* MemoryPersistence::isOpen
    persistStore,   \* MemoryPersistence::store
    persistCall     \* the last call of a member of MemoryPersistence and its outcome

simVars ==
    <<simArgv, simPc, simExit, published, routed, inbox, isOpen, persistStore,
      persistCall>>

vars == <<ingressVars, guiVars, simVars>>

----------------------------------------------------------------------------
(* Bounds *)

\* number of consume_message calls a run makes
MaxMsgs == 2

\* number of command line arguments after the executable
MaxArgs == 4

\* time stamps of the points that reach the store while the tool runs are
\* 1..MaxTime; the tool was started at CursorStart = 0
MaxTime == 2

\* number of clicks on the Connect button of the dialog
MaxConnects == 2

\* number of messages the simulator publishes
MaxPublish == 2

----------------------------------------------------------------------------
(* constants.h *)

MqttQos == 1
MqttTopic == "haus/dht"
InfluxDbName == "sensor_data"

ClientId == "ingress"

NoExit == -1
\* status of a process ended by std::terminate (SIGABRT)
Aborted == 134

----------------------------------------------------------------------------
(* Config, ParseConfig, ValidateConfig *)

\* Config{} : the default member initialisers; "" is the empty std::string
DefaultConfig ==
    [influxDbUrl |-> <<>>, mqttUrl |-> "", clientId |-> ClientId,
     topic |-> MqttTopic, qos |-> MqttQos]

\* stream << "http://" << argv[++i] << "?db=" << InfluxDbName, kept as its parts
InfluxUrl(host) == <<"http://", host, "?db=", InfluxDbName>>

\* the for loop of ParseConfig from C index i on; argc = Len(args), C's
\* argv[i] is args[i + 1]
RECURSIVE ParseConfigFrom(_, _, _)
ParseConfigFrom(args, i, cfg) ==
    IF ~(i < Len(args)) THEN cfg
    ELSE LET arg == args[i + 1]
             takesInflux == arg = "--influx" /\ i + 1 < Len(args)
             i1 == IF takesInflux THEN i + 1 ELSE i
             cfg1 == IF takesInflux
                     THEN [cfg EXCEPT !.influxDbUrl = InfluxUrl(args[i1 + 1])]
                     ELSE cfg
             takesMqtt == arg = "--mqtt" /\ i1 + 1 < Len(args)
             i2 == IF takesMqtt THEN i1 + 1 ELSE i1
             cfg2 == IF takesMqtt
                     THEN [cfg1 EXCEPT !.mqttUrl = args[i2 + 1]]
                     ELSE cfg1
         IN ParseConfigFrom(args, i2 + 1, cfg2)

ParseConfig(args) == ParseConfigFrom(args, 1, DefaultConfig)

\* variant of ValidateConfig: one of the two URLs is enough
ValidateConfig_EitherUrl(cfg) ==
    /\ cfg.influxDbUrl # <<>> \/ cfg.mqttUrl # ""
    /\ cfg.topic # ""
    /\ 0 <= cfg.qos /\ cfg.qos <= 3

ValidateConfig(cfg) ==
    /\ cfg.influxDbUrl # <<>>
    /\ cfg.mqttUrl # ""
    /\ cfg.topic # ""
    /\ 0 <= cfg.qos /\ cfg.qos <= 3

\* the command lines the service is started with
CommandLines ==
    { <<"ingress">>,
      <<"ingress", "--influx", "localhost:8086">>,
      <<"ingress", "--mqtt", "localhost:1883">>,
      <<"ingress", "--influx", "localhost:8086", "--mqtt">>,
      <<"ingress", "--mqtt", "localhost:1883", "--influx">>,
      <<"ingress", "--influx", "localhost:8086", "--mqtt", "localhost:1883">>,
      <<"ingress", "--mqtt", "localhost:1883", "--influx", "localhost:8086">> }

----------------------------------------------------------------------------
(* Payloads.  A ptree leaf is text; a text is kept as what the two        *)
(* conversions applied to it (date::parse, ptree's float translator) can  *)
(* make of it.  A field of a payload is <<>> (absent) or <<text>>.        *)

TimeText(t) == [cls |-> "time", v |-> t]    \* text matching "%F %T %Z", instant t
NumText(n) == [cls |-> "num", v |-> n]      \* text that is a number
JunkText == [cls |-> "junk", v |-> 0]       \* neither, e.g. "abc"

TimestampFields == {<<>>, <<JunkText>>, <<TimeText(1)>>, <<TimeText(2)>>}
TemperatureFields == {<<>>, <<JunkText>>, <<NumText(20)>>}
HumidityFields == {<<>>, <<JunkText>>, <<NumText(45)>>}

\* text read_json rejects, e.g. `not json`
MalformedPayload ==
    [json |-> FALSE, timestamp |-> <<>>, temperature |-> <<>>, humidity |-> <<>>]

JsonPayloads ==
    [json : {TRUE}, timestamp : TimestampFields,
     temperature : TemperatureFields, humidity : HumidityFields]

Payloads == {MalformedPayload} \cup JsonPayloads

----------------------------------------------------------------------------
(* Measurement and ParseMqttPayload *)

\* std::chrono::system_clock::time_point{}
Epoch == 0

\* Temperature{} : value-initialised Measurement
DefaultMeasurement == [timestamp |-> Epoch, value |-> 0]

\* variant of DateParse: the parsed instant is dropped
DateParse_Dropped(text, tp) == tp

\* std::istringstream{text} >> date::parse(TimeStampFormat, tp): on a text
\* that does not match, the temporary stream gets failbit and tp is left alone
DateParse(text, tp) == IF text.cls = "time" THEN text.v ELSE tp

\* exception classes: boost::property_tree and the two client libraries
IsA(exc, base) ==
    \/ exc = base
    \/ exc = "json_parser_error" /\ base \in {"file_parser_error", "ptree_error"}
    \/ exc = "file_parser_error" /\ base = "ptree_error"
    \/ exc = "ptree_bad_path" /\ base = "ptree_error"
    \/ exc = "ptree_bad_data" /\ base = "ptree_error"

Thrown(exc, what, t, h) ==
    [thrown |-> <<exc>>, what |-> what, temperature |-> t, humidity |-> h]

\* ptree.get<float>(path) on a present field: the translator's verdict
IsFloat(text) == text.cls = "num"

\* the try block of ParseMqttPayload: how it is left and what the two
\* output parameters hold at that point
ParseBody(payload, t, h) ==
    IF ~payload.json
    THEN Thrown("json_parser_error", "<unspecified file>(1): expected value", t, h)
    ELSE IF payload.timestamp = <<>>
    THEN Thrown("ptree_bad_path", "No such node (timestamp)", t, h)
    ELSE LET timestamp == DateParse(payload.timestamp[1], Epoch)
             t1 == [t EXCEPT !.timestamp = timestamp]
             h1 == [h EXCEPT !.timestamp = timestamp]
         IN IF payload.temperature = <<>>
            THEN Thrown("ptree_bad_path", "No such node (temperature)", t1, h1)
            ELSE IF ~IsFloat(payload.temperature[1])
            THEN Thrown("ptree_bad_data", "conversion of data to type f failed", t1, h1)
            ELSE LET t2 == [t1 EXCEPT !.value = payload.temperature[1].v]
                 IN IF payload.humidity = <<>>
                    THEN Thrown("ptree_bad_path", "No such node (humidity)", t2, h1)
                    ELSE IF ~IsFloat(payload.humidity[1])
                    THEN Thrown("ptree_bad_data", "conversion of data to type f failed", t2, h1)
                    ELSE [thrown |-> <<>>, what |-> "",
                          temperature |-> t2,
                          humidity |-> [h1 EXCEPT !.value = payload.humidity[1].v]]

\* the catch clauses of ParseMqttPayload, in order
ParseCatches == <<"json_parser_error", "ptree_error">>

\* ret is "true" / "false", or "terminate" when an exception meets no catch
\* clause of the noexcept function
ParseMqttPayload(payload, t, h, e) ==
    LET b == ParseBody(payload, t, h)
    IN IF b.thrown = <<>>
       THEN [ret |-> "true", temperature |-> b.temperature,
             humidity |-> b.humidity, errMsg |-> e]
       ELSE IF \E k \in 1..Len(ParseCatches) : IsA(b.thrown[1], ParseCatches[k])
       THEN [ret |-> "false", temperature |-> b.temperature,
             humidity |-> b.humidity, errMsg |-> b.what]
       ELSE [ret |-> "terminate", temperature |-> b.temperature,
             humidity |-> b.humidity, errMsg |-> e]

----------------------------------------------------------------------------
(* main *)

Call(op, arg, ok, out) == [op |-> op, arg |-> arg, ok |-> ok, out |-> out]

\* the calls of one kind made so far, in order
CallsOf(op) == SelectSeq(log, LAMBDA c : c.op = op)

\* the catch clauses of main, in order; both return 1
MainCatches == <<"mqtt::exception", "influxdb::InfluxDBException">>

\* exit status after exception exc left the try block of main
StatusAfter(exc) ==
    IF \E k \in 1..Len(MainCatches) : IsA(exc, MainCatches[k]) THEN 1 ELSE Aborted

\* variant of Leave: the exception is swallowed inside the loop
Leave_Swallowed(call, exc) ==
    /\ log' = Append(log, call)
    /\ pc' = "consume"
    /\ exitStatus' = exitStatus

\* a library call threw exc: the matching catch clause returns from main
Leave(call, exc) ==
    /\ log' = Append(log, call)
    /\ pc' = "done"
    /\ exitStatus' = StatusAfter(exc)

\* main of the ingress service before its first statement
IngressStart ==
    /\ config = DefaultConfig
    /\ pc = "start"
    /\ exitStatus = NoExit
    /\ res = <<>>
    /\ msg = <<>>
    /\ temperature = DefaultMeasurement
    /\ humidity = DefaultMeasurement
    /\ errMsg = ""
    /\ ret = "none"
    /\ log = <<>>

SeriesNames == {"temperature", "humidity"}

\* a default-constructed std::future: not valid, no task
NoTask == [st |-> "none", since |-> 0, result |-> <<>>, failed |-> FALSE]

\* std::chrono::system_clock::now() when State is constructed
CursorStart == 0

\* State{} of the visualization tool, and an empty store
GuiStart ==
    /\ rpc = "idle"
    /\ showConnDialog = TRUE
    /\ errorMsg = ""
    /\ dbLocked = FALSE
    /\ dbHandle = 0
    /\ future = [s \in SeriesNames |-> NoTask]
    /\ released = [s \in SeriesNames |-> NoTask]
    /\ cursor = [s \in SeriesNames |-> CursorStart]
    /\ timeSeries = [s \in SeriesNames |-> <<>>]
    /\ store = [s \in SeriesNames |-> {}]
    /\ ahead = [s \in SeriesNames |-> {}]
    /\ connects = 0

\* fake-dht.cpp: the constants of the simulator
SimQos == 1
SimClientId == "fake-dht"
SimTopic == "haus/temperatur"

\* no member of MemoryPersistence has been called yet
NoCall == [op |-> "none", key |-> "", had |-> FALSE, threw |-> FALSE]

\* main of the simulator before its first statement, a MemoryPersistence as
\* constructed, and a broker that has seen nothing
SimStart ==
    /\ simPc = "start"
    /\ simExit = NoExit
    /\ published = <<>>
    /\ routed = 0
    /\ inbox = <<>>
    /\ isOpen = FALSE
    /\ persistStore = {}
    /\ persistCall = NoCall

\* the program that is not looked at is not started
SimIdle == simArgv = <<"fake-dht">> /\ SimStart

Init ==
    /\ argv \in CommandLines
    /\ IngressStart
    /\ GuiStart
    /\ SimIdle

\* lines 140-148: ParseConfig, ValidateConfig, usage and return 1
Configure ==
    /\ pc = "start"
    /\ config' = ParseConfig(argv)
    /\ IF ValidateConfig(config')
       THEN pc' = "client" /\ exitStatus' = exitStatus /\ log' = log
       ELSE /\ pc' = "done"
            /\ exitStatus' = 1
            /\ log' = Append(log, Call("Usage", <<argv[1]>>, TRUE, <<>>))
    /\ UNCHANGED guiVars
    /\ UNCHANGED simVars
    /\ UNCHANGED <<argv, res, msg, temperature, humidity, errMsg, ret>>

\* lines 152-160: the mqtt::client constructor (connOpts cannot fail)
CreateClient ==
    /\ pc = "client"
    /\ LET call(ok) == Call("mqtt::client", <<config.mqttUrl, config.mqttUrl>>, ok, <<>>)
       IN \/ /\ log' = Append(log, call(TRUE))
             /\ pc' = "influx"
             /\ exitStatus' = exitStatus
          \/ Leave(call(FALSE), "mqtt::exception")
    /\ UNCHANGED guiVars
    /\ UNCHANGED simVars
    /\ UNCHANGED <<argv, config, res, msg, temperature, humidity, errMsg, ret>>

\* line 162: InfluxDBFactory::Get
InfluxGet ==
    /\ pc = "influx"
    /\ LET call(ok) == Call("InfluxDBFactory::Get", <<config.influxDbUrl>>, ok, <<>>)
       IN \/ /\ log' = Append(log, call(TRUE))
             /\ pc' = "createdb"
             /\ exitStatus' = exitStatus
          \/ Leave(call(FALSE), "influxdb::InfluxDBException")
    /\ UNCHANGED guiVars
    /\ UNCHANGED simVars
    /\ UNCHANGED <<argv, config, res, msg, temperature, humidity, errMsg, ret>>

\* line 163: db->createDatabaseIfNotExists
CreateDatabase ==
    /\ pc = "createdb"
    /\ LET call(ok) == Call("createDatabaseIfNotExists", <<>>, ok, <<>>)
       IN \/ /\ log' = Append(log, call(TRUE))
             /\ pc' = "connect"
             /\ exitStatus' = exitStatus
          \/ Leave(call(FALSE), "influxdb::InfluxDBException")
    /\ UNCHANGED guiVars
    /\ UNCHANGED simVars
    /\ UNCHANGED <<argv, config, res, msg, temperature, humidity, errMsg, ret>>

\* variant of Connect: a failed connect is tried once more
Connect_Retried ==
    /\ pc = "connect"
    /\ \/ \E present \in BOOLEAN :
             /\ log' = Append(log, Call("connect", <<>>, TRUE, <<present>>))
             /\ res' = <<present>>
             /\ pc' = "subscribe"
             /\ exitStatus' = exitStatus
       \/ /\ Len(CallsOf("connect")) = 0
          /\ log' = Append(log, Call("connect", <<>>, FALSE, <<>>))
          /\ pc' = "connect"
          /\ exitStatus' = exitStatus
          /\ res' = res
       \/ /\ Len(CallsOf("connect")) > 0
          /\ Leave(Call("connect", <<>>, FALSE, <<>>), "mqtt::exception")
          /\ res' = res
    /\ UNCHANGED guiVars
    /\ UNCHANGED simVars
    /\ UNCHANGED <<argv, config, msg, temperature, humidity, errMsg, ret>>

\* lines 165-167: client.connect; the broker answers whether a session exists
Connect ==
    /\ pc = "connect"
    /\ \/ \E present \in BOOLEAN :
             /\ log' = Append(log, Call("connect", <<>>, TRUE, <<present>>))
             /\ res' = <<present>>
             /\ pc' = "subscribe"
             /\ exitStatus' = exitStatus
       \/ /\ Leave(Call("connect", <<>>, FALSE, <<>>), "mqtt::exception")
          /\ res' = res
    /\ UNCHANGED guiVars
    /\ UNCHANGED simVars
    /\ UNCHANGED <<argv, config, msg, temperature, humidity, errMsg, ret>>

\* variant of Subscribe: the session flag is not looked at
Subscribe_Unconditional ==
    /\ pc = "subscribe"
    /\ LET call(ok) == Call("subscribe", <<config.topic, config.qos>>, ok, <<>>)
       IN \/ /\ log' = Append(log, call(TRUE))
             /\ pc' = "consume"
             /\ exitStatus' = exitStatus
          \/ Leave(call(FALSE), "mqtt::exception")
    /\ UNCHANGED guiVars
    /\ UNCHANGED simVars
    /\ UNCHANGED <<argv, config, res, msg, temperature, humidity, errMsg, ret>>

\* lines 169-174: no session present, client.subscribe
Subscribe ==
    /\ pc = "subscribe"
    /\ ~res[1]
    /\ LET call(ok) == Call("subscribe", <<config.topic, config.qos>>, ok, <<>>)
       IN \/ /\ log' = Append(log, call(TRUE))
             /\ pc' = "consume"
             /\ exitStatus' = exitStatus
          \/ Leave(call(FALSE), "mqtt::exception")
    /\ UNCHANGED guiVars
    /\ UNCHANGED simVars
    /\ UNCHANGED <<argv, config, res, msg, temperature, humidity, errMsg, ret>>

\* variant of SkipSubscribe: the session flag is not looked at
SkipSubscribe_Unconditional ==
    /\ pc = "subscribe"
    /\ pc' = "consume"
    /\ UNCHANGED guiVars
    /\ UNCHANGED simVars
    /\ UNCHANGED <<argv, config, exitStatus, res, msg, temperature, humidity, errMsg, ret, log>>

\* lines 175-178: session present, subscribe is skipped
SkipSubscribe ==
    /\ pc = "subscribe"
    /\ res[1]
    /\ pc' = "consume"
    /\ UNCHANGED guiVars
    /\ UNCHANGED simVars
    /\ UNCHANGED <<argv, config, exitStatus, res, msg, temperature, humidity, errMsg, ret, log>>

\* variant of ConsumeMessage: the message is used without the test for nullptr
ConsumeMessage_NoNullCheck ==
    /\ pc = "consume"
    /\ Len(CallsOf("consume_message")) < MaxMsgs
    /\ \/ \E payload \in Payloads :
             /\ log' = Append(log, Call("consume_message", <<>>, TRUE, <<payload>>))
             /\ msg' = <<payload>>
             /\ pc' = "parse"
             /\ exitStatus' = exitStatus
       \/ /\ log' = Append(log, Call("consume_message", <<>>, TRUE, <<>>))
          /\ msg' = <<MalformedPayload>>
          /\ pc' = "parse"
          /\ exitStatus' = exitStatus
       \/ /\ Leave(Call("consume_message", <<>>, FALSE, <<>>), "mqtt::exception")
          /\ msg' = msg
    /\ temperature' = DefaultMeasurement
    /\ humidity' = DefaultMeasurement
    /\ errMsg' = ""
    /\ ret' = "none"
    /\ UNCHANGED guiVars
    /\ UNCHANGED simVars
    /\ UNCHANGED <<argv, config, res>>

\* variant of ConsumeMessage: a null message ends the loop and main returns 0
ConsumeMessage_BreakOnNull ==
    /\ pc = "consume"
    /\ Len(CallsOf("consume_message")) < MaxMsgs
    /\ \/ \E payload \in Payloads :
             /\ log' = Append(log, Call("consume_message", <<>>, TRUE, <<payload>>))
             /\ msg' = <<payload>>
             /\ pc' = "parse"
             /\ exitStatus' = exitStatus
       \/ /\ log' = Append(log, Call("consume_message", <<>>, TRUE, <<>>))
          /\ msg' = <<>>
          /\ pc' = "done"
          /\ exitStatus' = 0
       \/ /\ Leave(Call("consume_message", <<>>, FALSE, <<>>), "mqtt::exception")
          /\ msg' = msg
    /\ temperature' = DefaultMeasurement
    /\ humidity' = DefaultMeasurement
    /\ errMsg' = ""
    /\ ret' = "none"
    /\ UNCHANGED guiVars
    /\ UNCHANGED simVars
    /\ UNCHANGED <<argv, config, res>>

\* lines 183-191: client.consume_message returns a message or nullptr, or
\* fails; on a message the three locals of the iteration are fresh
ConsumeMessage ==
    /\ pc = "consume"
    /\ Len(CallsOf("consume_message")) < MaxMsgs
    /\ \/ \E payload \in Payloads :
             /\ log' = Append(log, Call("consume_message", <<>>, TRUE, <<payload>>))
             /\ msg' = <<payload>>
             /\ pc' = "parse"
             /\ exitStatus' = exitStatus
       \/ /\ log' = Append(log, Call("consume_message", <<>>, TRUE, <<>>))
          /\ msg' = <<>>
          /\ pc' = "consume"
          /\ exitStatus' = exitStatus
       \/ /\ Leave(Call("consume_message", <<>>, FALSE, <<>>), "mqtt::exception")
          /\ msg' = msg
    /\ temperature' = DefaultMeasurement
    /\ humidity' = DefaultMeasurement
    /\ errMsg' = ""
    /\ ret' = "none"
    /\ UNCHANGED guiVars
    /\ UNCHANGED simVars
    /\ UNCHANGED <<argv, config, res>>

\* variant of HandlePayload: a payload seen before is not written again
HandlePayload_Deduplicated ==
    /\ pc = "parse"
    /\ LET r == ParseMqttPayload(msg[1], temperature, humidity, errMsg)
           seen == \E i \in 1..(Len(log) - 1) :
                      log[i].op = "consume_message" /\ log[i].out = msg
       IN /\ ret' = r.ret
          /\ temperature' = r.temperature
          /\ humidity' = r.humidity
          /\ errMsg' = r.errMsg
          /\ IF r.ret = "true" /\ ~seen
             THEN pc' = "writeTemperature" /\ exitStatus' = exitStatus
             ELSE IF r.ret \in {"true", "false"}
             THEN pc' = "consume" /\ exitStatus' = exitStatus
             ELSE pc' = "done" /\ exitStatus' = Aborted
    /\ UNCHANGED guiVars
    /\ UNCHANGED simVars
    /\ UNCHANGED <<argv, config, res, msg, log>>

\* variant of HandlePayload: the result of the parser is not looked at
HandlePayload_IgnoresResult ==
    /\ pc = "parse"
    /\ LET r == ParseMqttPayload(msg[1], temperature, humidity, errMsg)
       IN /\ ret' = r.ret
          /\ temperature' = r.temperature
          /\ humidity' = r.humidity
          /\ errMsg' = r.errMsg
          /\ pc' = "writeTemperature"
          /\ exitStatus' = exitStatus
    /\ UNCHANGED guiVars
    /\ UNCHANGED simVars
    /\ UNCHANGED <<argv, config, res, msg, log>>

\* lines 192-196 and 207-210: ParseMqttPayload and the branch on its result
HandlePayload ==
    /\ pc = "parse"
    /\ LET r == ParseMqttPayload(msg[1], temperature, humidity, errMsg)
       IN /\ ret' = r.ret
          /\ temperature' = r.temperature
          /\ humidity' = r.humidity
          /\ errMsg' = r.errMsg
          /\ IF r.ret = "true" THEN pc' = "writeTemperature" /\ exitStatus' = exitStatus
             ELSE IF r.ret = "false" THEN pc' = "consume" /\ exitStatus' = exitStatus
             ELSE pc' = "done" /\ exitStatus' = Aborted
    /\ UNCHANGED guiVars
    /\ UNCHANGED simVars
    /\ UNCHANGED <<argv, config, res, msg, log>>

\* variant of Point: the series is named after the reading
Point_NamedByContent(series, m) ==
    <<IF m.timestamp = 1 THEN series ELSE "dht", m.timestamp, m.value>>

\* influxdb::Point{series}.setTimestamp(m.timestamp).addField("value", m.value)
Point(series, m) == <<series, m.timestamp, m.value>>

\* variant of WriteTemperature: the point is held back and the loop goes on
WriteTemperature_HeldBack ==
    /\ pc = "writeTemperature"
    /\ pc' = "consume"
    /\ UNCHANGED guiVars
    /\ UNCHANGED simVars
    /\ UNCHANGED <<argv, config, exitStatus, res, msg, temperature, humidity, errMsg, ret, log>>

\* lines 197-200: db->write(tempPoint)
WriteTemperature ==
    /\ pc = "writeTemperature"
    /\ LET call(ok) == Call("write", Point("temperature", temperature), ok, <<>>)
       IN \/ /\ log' = Append(log, call(TRUE))
             /\ pc' = "writeHumidity"
             /\ exitStatus' = exitStatus
          \/ Leave(call(FALSE), "influxdb::InfluxDBException")
    /\ UNCHANGED guiVars
    /\ UNCHANGED simVars
    /\ UNCHANGED <<argv, config, res, msg, temperature, humidity, errMsg, ret>>

\* variant of WriteHumidity: the second write is left out
WriteHumidity_Omitted ==
    /\ pc = "writeHumidity"
    /\ pc' = "consume"
    /\ UNCHANGED guiVars
    /\ UNCHANGED simVars
    /\ UNCHANGED <<argv, config, exitStatus, res, msg, temperature, humidity, errMsg, ret, log>>

\* lines 202-205: db->write(humiPoint)
WriteHumidity ==
    /\ pc = "writeHumidity"
    /\ LET call(ok) == Call("write", Point("humidity", humidity), ok, <<>>)
       IN \/ /\ log' = Append(log, call(TRUE))
             /\ pc' = "consume"
             /\ exitStatus' = exitStatus
          \/ Leave(call(FALSE), "influxdb::InfluxDBException")
    /\ UNCHANGED guiVars
    /\ UNCHANGED simVars
    /\ UNCHANGED <<argv, config, res, msg, temperature, humidity, errMsg, ret>>

Next ==
    \/ Configure
    \/ CreateClient
    \/ InfluxGet
    \/ CreateDatabase
    \/ Connect
    \/ Subscribe
    \/ SkipSubscribe
    \/ ConsumeMessage
    \/ HandlePayload
    \/ WriteTemperature
    \/ WriteHumidity

Spec == Init /\ [][Next]_vars

TypeOK ==
    /\ pc \in {"start", "client", "influx", "createdb", "connect", "subscribe",
               "consume", "parse", "writeTemperature", "writeHumidity", "done"}
    /\ exitStatus \in {NoExit, 0, 1, Aborted}
    /\ ret \in {"none", "true", "false", "terminate"}

----------------------------------------------------------------------------
(* Reading the log *)

IsConsume(i) == log[i].op = "consume_message"

\* log[i] is a consume_message call that returned a message
IsMessage(i) == IsConsume(i) /\ log[i].ok /\ Len(log[i].out) = 1

PayloadAt(i) == log[i].out[1]

IsWrite(i) == log[i].op = "write"

\* what the parser makes of a payload inside a fresh loop iteration
Parsed(payload) ==
    ParseMqttPayload(payload, DefaultMeasurement, DefaultMeasurement, "")

\* the iteration that consumed log[i] is over: a later consume_message call
\* exists, or main is back at the receive call
IterationOver(i) ==
    \/ \E j \in (i + 1)..Len(log) : IsConsume(j)
    \/ pc = "consume"

ScenarioA ==
    [json |-> TRUE, timestamp |-> <<TimeText(1)>>,
     temperature |-> <<NumText(20)>>, humidity |-> <<NumText(45)>>]

ScenarioB ==
    [json |-> TRUE, timestamp |-> <<>>,
     temperature |-> <<NumText(20)>>, humidity |-> <<NumText(45)>>]

----------------------------------------------------------------------------
(* C1: a message whose payload fails to parse causes no write, and main   *)
(* is back at the receive call, still running: the log entry after the    *)
(* consume of such a message, if any, is the next consume_message.        *)
C1_ParseFailureSkipsMessage ==
    /\ ret = "false" =>
          /\ pc = "consume"
          /\ exitStatus = NoExit
          /\ Len(log) > 0 /\ IsMessage(Len(log)) /\ log[Len(log)].out = msg
    /\ \A i \in 1..Len(log) :
          (IsMessage(i) /\ Parsed(PayloadAt(i)).ret = "false")
             => (i = Len(log) \/ IsConsume(i + 1))

\* scenario B was consumed, nothing was written, and the next message is in hand
C1_Witness ==
    /\ pc = "parse"
    /\ Len(log) > 1
    /\ IsMessage(Len(log) - 1) /\ PayloadAt(Len(log) - 1) = ScenarioB
    /\ IsMessage(Len(log))
    /\ CallsOf("write") = <<>>

----------------------------------------------------------------------------
(* C2: once the iteration of a successfully parsed message is over, the   *)
(* two log entries after its consume are the temperature write and then   *)
(* the humidity write, both with the timestamp the parser returned for    *)
(* that message (the instant of its timestamp text when that matches the  *)
(* format), and the entry after them, if any, is the next consume.        *)
C2_TwoWritesPerParsedMessage ==
    \A i \in 1..Len(log) :
       (IsMessage(i) /\ Parsed(PayloadAt(i)).ret = "true" /\ IterationOver(i)) =>
          LET r == Parsed(PayloadAt(i))
              text == PayloadAt(i).timestamp[1]
          IN /\ i + 2 <= Len(log)
             /\ IsWrite(i + 1) /\ log[i + 1].ok
             /\ IsWrite(i + 2) /\ log[i + 2].ok
             /\ log[i + 1].arg[1] = "temperature"
             /\ log[i + 2].arg[1] = "humidity"
             /\ log[i + 1].arg[2] = r.temperature.timestamp
             /\ log[i + 2].arg[2] = log[i + 1].arg[2]
             /\ text.cls = "time" => log[i + 1].arg[2] = text.v
             /\ i + 2 = Len(log) \/ IsConsume(i + 3)

\* scenario A was consumed and written, and the next message is in hand
C2_Witness ==
    /\ pc = "parse"
    /\ Len(log) > 3
    /\ IsMessage(Len(log) - 3) /\ PayloadAt(Len(log) - 3) = ScenarioA
    /\ log[Len(log) - 2].arg = <<"temperature", 1, 20>>
    /\ log[Len(log) - 1].arg = <<"humidity", 1, 45>>
    /\ IsMessage(Len(log))

----------------------------------------------------------------------------
(* C3: a write that throws is the last call main ever makes: main has     *)
(* returned 1, the temperature write before a failed humidity write is    *)
(* still the entry before it, and no call is ever taken out of the log.   *)
C3_WriteFailureIsFatal ==
    /\ [](\A i \in 1..Len(log) :
            (IsWrite(i) /\ ~log[i].ok) =>
               /\ i = Len(log)
               /\ pc = "done"
               /\ exitStatus = 1
               /\ log[i].arg[1] = "humidity" =>
                     (IsWrite(i - 1) /\ log[i - 1].ok /\ log[i - 1].arg[1] = "temperature"))
    /\ [][Len(log') >= Len(log) /\ SubSeq(log', 1, Len(log)) = log]_vars

\* the humidity write failed after the temperature write went through
C3_Witness ==
    /\ Len(log) > 1
    /\ IsWrite(Len(log)) /\ ~log[Len(log)].ok /\ log[Len(log)].arg[1] = "humidity"
    /\ IsWrite(Len(log) - 1) /\ log[Len(log) - 1].ok
    /\ pc = "done" /\ exitStatus = 1

----------------------------------------------------------------------------
(* C4: when connect reported a present session, no subscribe call is in   *)
(* the log, at any point of the run.                                      *)
C4_NoSubscribeOnSessionResume ==
    (res # <<>> /\ res[1]) => CallsOf("subscribe") = <<>>

\* a resumed session that has reached the receive loop and taken a message
C4_Witness ==
    /\ res = <<TRUE>>
    /\ pc = "parse"
    /\ CallsOf("subscribe") = <<>>

----------------------------------------------------------------------------
(* C5: when connect reported no session, there is one subscribe call once *)
(* main is past the branch and never more than one; it names the fixed    *)
(* topic and the configured QoS, directly follows the successful connect  *)
(* and precedes every consume_message.                                    *)
C5_SubscribeOnceOnNewSession ==
    (res # <<>> /\ ~res[1]) =>
       LET subs == {i \in 1..Len(log) : log[i].op = "subscribe"}
       IN /\ Cardinality(subs) <= 1
          /\ pc # "subscribe" => Cardinality(subs) = 1
          /\ \A i \in subs :
                /\ log[i].arg = <<MqttTopic, config.qos>>
                /\ config.qos = MqttQos
                /\ i > 1 /\ log[i - 1].op = "connect" /\ log[i - 1].ok
                /\ \A j \in 1..Len(log) : IsConsume(j) => j > i

\* a new session that subscribed and then took a message
C5_Witness ==
    /\ res = <<FALSE>>
    /\ pc = "parse"
    /\ Len(CallsOf("subscribe")) = 1
    /\ CallsOf("subscribe")[1].ok

----------------------------------------------------------------------------
(* C6: the points issued to each series are, in order, the points of the  *)
(* successfully parsed messages in the order they were consumed, complete *)
(* whenever main is back at the receive call; and every write comes after *)
(* the consume of the message it carries and before any later consume.    *)

IsPrefix(a, b) == Len(a) <= Len(b) /\ SubSeq(b, 1, Len(a)) = a

\* the points the successfully parsed messages consumed so far stand for
ExpectedPoints(series) ==
    LET good == SelectSeq(log, LAMBDA c :
                    /\ c.op = "consume_message" /\ c.ok /\ Len(c.out) = 1
                    /\ Parsed(c.out[1]).ret = "true")
    IN [k \in 1..Len(good) |->
          IF series = "temperature"
          THEN <<series, Parsed(good[k].out[1]).temperature.timestamp,
                 Parsed(good[k].out[1]).temperature.value>>
          ELSE <<series, Parsed(good[k].out[1]).humidity.timestamp,
                 Parsed(good[k].out[1]).humidity.value>>]

\* the points issued to a series so far
IssuedPoints(series) ==
    LET w == SelectSeq(log, LAMBDA c : c.op = "write" /\ c.arg[1] = series)
    IN [k \in 1..Len(w) |-> w[k].arg]

C6_DeliveryOrderPreserved ==
    /\ \A series \in {"temperature", "humidity"} :
          /\ IsPrefix(IssuedPoints(series), ExpectedPoints(series))
          /\ pc = "consume" => IssuedPoints(series) = ExpectedPoints(series)
    /\ \A k \in 1..Len(log) :
          IsWrite(k) =>
             \E i \in 1..(k - 1) :
                /\ IsMessage(i)
                /\ \A j \in (i + 1)..k : ~IsConsume(j)
                /\ log[k].arg[2] = Parsed(PayloadAt(i)).temperature.timestamp
                /\ log[k].arg[3] \in {Parsed(PayloadAt(i)).temperature.value,
                                      Parsed(PayloadAt(i)).humidity.value}

\* two messages with different timestamps were written in the order consumed
C6_Witness ==
    /\ pc = "consume"
    /\ Len(IssuedPoints("temperature")) = 2
    /\ IssuedPoints("temperature")[1][2] = 2
    /\ IssuedPoints("temperature")[2][2] = 1
    /\ Len(IssuedPoints("humidity")) = 2
    /\ IssuedPoints("humidity")[1][2] = 2
    /\ IssuedPoints("humidity")[2][2] = 1

----------------------------------------------------------------------------
(* C7: a start-up call that throws is the last call main makes: main has  *)
(* returned 1, no start-up call is made twice, and no message was         *)
(* consumed and no point written.                                         *)

StartupOps ==
    {"mqtt::client", "InfluxDBFactory::Get", "createDatabaseIfNotExists",
     "connect", "subscribe"}

C7_StartupFailureIsFatal ==
    /\ \A op \in StartupOps : Len(CallsOf(op)) <= 1
    /\ \A i \in 1..Len(log) :
          (log[i].op \in StartupOps /\ ~log[i].ok) =>
             /\ i = Len(log)
             /\ pc = "done"
             /\ exitStatus = 1
             /\ CallsOf("consume_message") = <<>>
             /\ CallsOf("write") = <<>>

\* the broker refused the connection after the store was set up
C7_Witness ==
    /\ Len(log) = 4
    /\ log[3].op = "createDatabaseIfNotExists" /\ log[3].ok
    /\ log[4].op = "connect" /\ ~log[4].ok
    /\ pc = "done" /\ exitStatus = 1

----------------------------------------------------------------------------
(* C8: after the parser has run on a JSON payload that lacks one of the   *)
(* three fields or has a non-numeric temperature or humidity, it has      *)
(* returned false and the caller's two measurements are as they were      *)
(* before the call, and no point of that message is written.              *)

Deficient(payload) ==
    /\ payload.json
    /\ \/ payload.timestamp = <<>>
       \/ payload.temperature = <<>>
       \/ payload.humidity = <<>>
       \/ Len(payload.temperature) = 1 /\ payload.temperature[1].cls # "num"
       \/ Len(payload.humidity) = 1 /\ payload.humidity[1].cls # "num"

C8_NoPartialResult ==
    (ret # "none" /\ Len(msg) = 1 /\ Deficient(msg[1])) =>
       /\ ret = "false"
       /\ temperature = DefaultMeasurement
       /\ humidity = DefaultMeasurement
       /\ IsMessage(Len(log))

----------------------------------------------------------------------------
(* C9: after the parser has run on a JSON payload whose timestamp text    *)
(* does not match the format, it has returned false, and no point of that *)
(* message is written.                                                    *)
C9_BadTimestampFails ==
    (/\ ret # "none" /\ Len(msg) = 1 /\ msg[1].json
     /\ Len(msg[1].timestamp) = 1 /\ msg[1].timestamp[1].cls # "time") =>
       /\ ret = "false"
       /\ IsMessage(Len(log))

----------------------------------------------------------------------------
(* C10: the parser returns true or false on every payload and never ends  *)
(* the process; a false return carries a cause; and malformed JSON, a     *)
(* missing field, a non-numeric number field and a timestamp that does    *)
(* not match the format all make it return false.                         *)

Unparseable(payload) ==
    \/ ~payload.json
    \/ Deficient(payload)
    \/ Len(payload.timestamp) = 1 /\ payload.timestamp[1].cls # "time"

C10_ParserReportsEveryError ==
    /\ ret \in {"none", "true", "false"}
    /\ exitStatus # Aborted
    /\ ret = "false" => errMsg # ""
    /\ (ret # "none" /\ Len(msg) = 1 /\ Unparseable(msg[1])) => ret = "false"

----------------------------------------------------------------------------
(* C11: after the parser has run on a JSON payload with a timestamp that  *)
(* matches the format and numeric temperature and humidity, it has        *)
(* returned true, both measurements carry the instant of the timestamp    *)
(* text, the temperature measurement carries the temperature number and   *)
(* the humidity measurement the humidity number.                          *)

Valid(payload) ==
    /\ payload.json
    /\ Len(payload.timestamp) = 1 /\ payload.timestamp[1].cls = "time"
    /\ Len(payload.temperature) = 1 /\ payload.temperature[1].cls = "num"
    /\ Len(payload.humidity) = 1 /\ payload.humidity[1].cls = "num"

C11_ValidPayloadParses ==
    (ret # "none" /\ Len(msg) = 1 /\ Valid(msg[1])) =>
       /\ ret = "true"
       /\ temperature.timestamp = msg[1].timestamp[1].v
       /\ humidity.timestamp = temperature.timestamp
       /\ temperature.value = msg[1].temperature[1].v
       /\ humidity.value = msg[1].humidity[1].v

\* the parser has returned from a payload with instant 2, 20 degrees, 45 percent
C11_Witness ==
    /\ Len(msg) = 1 /\ Valid(msg[1])
    /\ ret = "true"
    /\ temperature = [timestamp |-> 2, value |-> 20]
    /\ humidity = [timestamp |-> 2, value |-> 45]

----------------------------------------------------------------------------
(* C12: every write names the series "temperature" or "humidity", and     *)
(* which of the two is fixed by the position of the write in the loop     *)
(* iteration, whatever the payload: the write right after a consume goes  *)
(* to "temperature", the write right after a write goes to "humidity".    *)
C12_SeriesNamesAreFixed ==
    \A k \in 1..Len(log) :
       IsWrite(k) =>
          /\ log[k].arg[1] \in {"temperature", "humidity"}
          /\ k > 1
          /\ IsMessage(k - 1) => log[k].arg[1] = "temperature"
          /\ IsWrite(k - 1) => log[k].arg[1] = "humidity"
          /\ IsMessage(k - 1) \/ IsWrite(k - 1)

\* two payloads with different timestamp texts were both written to the two series
C12_Witness ==
    /\ Len(CallsOf("write")) = 4
    /\ CallsOf("write")[1].arg = <<"temperature", 1, 20>>
    /\ CallsOf("write")[2].arg = <<"humidity", 1, 45>>
    /\ CallsOf("write")[3].arg = <<"temperature", 0, 20>>
    /\ CallsOf("write")[4].arg = <<"humidity", 0, 45>>

----------------------------------------------------------------------------
(* C13: whenever main is at the receive call, the writes issued so far    *)
(* are twice as many as the successfully parsed messages consumed so far  *)
(* (a payload consumed twice counts twice); every iteration starts from   *)
(* default measurements; and after a failed parse the last call is still  *)
(* the consume of the failing message.                                    *)

ParsedCount ==
    Len(SelectSeq(log, LAMBDA c :
           /\ c.op = "consume_message" /\ c.ok /\ Len(c.out) = 1
           /\ Parsed(c.out[1]).ret = "true"))

C13_NoStateBetweenMessages ==
    /\ pc = "consume" => Len(CallsOf("write")) = 2 * ParsedCount
    /\ pc = "parse" =>
          (temperature = DefaultMeasurement /\ humidity = DefaultMeasurement)
    /\ (pc = "consume" /\ ret = "false") => IsMessage(Len(log))

\* the same payload was consumed twice and written twice
C13_Witness ==
    /\ pc = "consume"
    /\ Len(log) > 5
    /\ IsMessage(Len(log) - 5) /\ IsMessage(Len(log) - 2)
    /\ PayloadAt(Len(log) - 5) = ScenarioA
    /\ PayloadAt(Len(log) - 2) = ScenarioA
    /\ Len(CallsOf("write")) = 4

----------------------------------------------------------------------------
(* C15: main never returns 0; once consume_message has been called, main  *)
(* has ended only if the last call is a consume_message or a write that   *)
(* threw, and then with status 1.                                         *)
C15_LoopEndsOnlyOnFatalError ==
    /\ exitStatus # 0
    /\ (pc = "done" /\ CallsOf("consume_message") # <<>>) =>
          /\ exitStatus = 1
          /\ ~log[Len(log)].ok
          /\ log[Len(log)].op \in {"consume_message", "write"}

\* the broker connection broke after a message had been handled
C15_Witness ==
    /\ pc = "done" /\ exitStatus = 1
    /\ Len(log) > 1
    /\ IsConsume(Len(log)) /\ ~log[Len(log)].ok
    /\ IsMessage(Len(log) - 1)

----------------------------------------------------------------------------
(* Start-up of main over every command line up to MaxArgs arguments *)

ArgTokens == {"--influx", "--mqtt", "localhost"}

AllCommandLines ==
    {<<"ingress">> \o a : a \in UNION {[1..n -> ArgTokens] : n \in 0..MaxArgs}}

InitStartup ==
    /\ argv \in AllCommandLines
    /\ IngressStart
    /\ GuiStart
    /\ SimIdle

NextStartup ==
    \/ Configure
    \/ CreateClient
    \/ InfluxGet
    \/ CreateDatabase
    \/ Connect
    \/ Subscribe
    \/ SkipSubscribe

SpecStartup == InitStartup /\ [][NextStartup]_vars

----------------------------------------------------------------------------
(* C14: when "--influx" or "--mqtt" does not occur on the command line    *)
(* with an argument after it, main has, once past the configuration,      *)
(* returned 1 and its only call was Usage: no client was created and no   *)
(* connection attempted.                                                  *)

\* flag occurs somewhere before the last argument
FlagGiven(args, flag) == \E i \in 2..(Len(args) - 1) : args[i] = flag

C14_MissingFlagExitsBeforeConnecting ==
    (pc # "start" /\ ~(FlagGiven(argv, "--influx") /\ FlagGiven(argv, "--mqtt"))) =>
       /\ pc = "done"
       /\ exitStatus = 1
       /\ log = <<Call("Usage", <<argv[1]>>, TRUE, <<>>)>>

\* "--mqtt" was the last argument, with no value
C14_Witness ==
    /\ argv = <<"ingress", "--influx", "localhost", "--mqtt">>
    /\ pc = "done"
    /\ exitStatus = 1
    /\ Len(log) = 1 /\ log[1].op = "Usage"

----------------------------------------------------------------------------
(* The visualization tool *)

\* a task just started by std::async(std::launch::async, GetNewMeasurements, ...)
NewTask == [st |-> "started", since |-> 0, result |-> <<>>, failed |-> FALSE]

\* the task runs: started, and GetNewMeasurements has not returned
Running(task) == task.st \in {"started", "waiting", "querying"}

\* the sequences that hold every element of a set of time stamps once
Orderings(S) ==
    {q \in [1..Cardinality(S) -> S] :
        \A i, j \in 1..Cardinality(S) : i # j => q[i] # q[j]}

\* variant of QueryResults: the query has no condition on the time
QueryResults_Unfiltered(name, since) == Orderings(store[name])

\* "select * from <name> where time > <since>": the points later than since,
\* in the order the store answers in
QueryResults(name, since) == Orderings({t \in store[name] : t > since})

\* the two places a task of a series can be held: the State's future, or the
\* future value an assignment is about to drop
Slots == {"future", "released"}

TaskOf(name, slot) == IF slot = "future" THEN future[name] ELSE released[name]

SetTask(name, slot, task) ==
    IF slot = "future"
    THEN future' = [future EXCEPT ![name] = task] /\ released' = released
    ELSE released' = [released EXCEPT ![name] = task] /\ future' = future

\* variant of ClickConnect: the result of Db::Connect is not tested
ClickConnect_LaunchesAnyway ==
    /\ rpc = "idle"
    /\ showConnDialog
    /\ connects < MaxConnects
    /\ ~dbLocked
    /\ connects' = connects + 1
    /\ \/ /\ errorMsg' = "InfluxDBFactory::Get failed"
          /\ UNCHANGED dbHandle
       \/ /\ dbHandle' = connects'
          /\ errorMsg' = "createDatabaseIfNotExists failed"
       \/ /\ dbHandle' = connects'
          /\ errorMsg' = ""
    /\ released' = [released EXCEPT !["temperature"] = future["temperature"]]
    /\ future' = [future EXCEPT !["temperature"] = NewTask]
    /\ rpc' = "joinTemperature"
    /\ UNCHANGED <<showConnDialog, dbLocked, cursor, timeSeries, store, ahead>>
    /\ UNCHANGED ingressVars
    /\ UNCHANGED simVars

\* DrawConnectDialog, the Connect button: Db::Connect under the mutex, and on
\* success errorMsg.clear() and the std::async of the temperature task, whose
\* assignment then has to let go of the previous future value
ClickConnect ==
    /\ rpc = "idle"
    /\ showConnDialog
    /\ connects < MaxConnects
    /\ ~dbLocked
    /\ connects' = connects + 1
    /\ \/ /\ errorMsg' = "InfluxDBFactory::Get failed"
          /\ UNCHANGED <<dbHandle, future, released, rpc>>
       \/ /\ dbHandle' = connects'
          /\ errorMsg' = "createDatabaseIfNotExists failed"
          /\ UNCHANGED <<future, released, rpc>>
       \/ /\ dbHandle' = connects'
          /\ errorMsg' = ""
          /\ released' = [released EXCEPT !["temperature"] = future["temperature"]]
          /\ future' = [future EXCEPT !["temperature"] = NewTask]
          /\ rpc' = "joinTemperature"
    /\ UNCHANGED <<showConnDialog, dbLocked, cursor, timeSeries, store, ahead>>
    /\ UNCHANGED ingressVars
    /\ UNCHANGED simVars

\* the assignment to temperatureFuture returns once the task of the previous
\* value is over; then the std::async of the humidity task
JoinTemperature ==
    /\ rpc = "joinTemperature"
    /\ ~Running(released["temperature"])
    /\ released' = [released EXCEPT !["temperature"] = NoTask,
                                    !["humidity"] = future["humidity"]]
    /\ future' = [future EXCEPT !["humidity"] = NewTask]
    /\ rpc' = "joinHumidity"
    /\ UNCHANGED <<showConnDialog, errorMsg, dbLocked, dbHandle, cursor, timeSeries,
                   store, ahead, connects>>
    /\ UNCHANGED ingressVars
    /\ UNCHANGED simVars

\* the assignment to humidityFuture returns; the dialog is closed
JoinHumidity ==
    /\ rpc = "joinHumidity"
    /\ ~Running(released["humidity"])
    /\ released' = [released EXCEPT !["humidity"] = NoTask]
    /\ showConnDialog' = FALSE
    /\ rpc' = "idle"
    /\ UNCHANGED <<errorMsg, dbLocked, dbHandle, future, cursor, timeSeries,
                   store, ahead, connects>>
    /\ UNCHANGED ingressVars
    /\ UNCHANGED simVars

\* DrawConnectDialog, the Cancel button
ClickCancel ==
    /\ rpc = "idle"
    /\ showConnDialog
    /\ showConnDialog' = FALSE
    /\ UNCHANGED <<rpc, errorMsg, dbLocked, dbHandle, future, released, cursor,
                   timeSeries, store, ahead, connects>>
    /\ UNCHANGED ingressVars
    /\ UNCHANGED simVars

\* DrawMainMenuBar, "Connect to database"
MenuConnect ==
    /\ rpc = "idle"
    /\ ~showConnDialog
    /\ showConnDialog' = TRUE
    /\ UNCHANGED <<rpc, errorMsg, dbLocked, dbHandle, future, released, cursor,
                   timeSeries, store, ahead, connects>>
    /\ UNCHANGED ingressVars
    /\ UNCHANGED simVars

\* variant of IsFutureDone: valid() is not asked
IsFutureDone_IgnoresValid(task) == task.st \in {"none", "done"}

\* IsFutureDone: valid and ready
IsFutureDone(task) == task.st = "done"

\* TimeSeries::Insert of a batch
Insert(buffer, measurements) == buffer \o measurements

\* variant of UpdateData: the block of the temperature series assigns the
\* cursor of the humidity series
UpdateData_WrongCursor ==
    /\ rpc = "idle"
    /\ \E name \in SeriesNames : IsFutureDone(future[name])
    /\ timeSeries' = [name \in SeriesNames |->
                    IF IsFutureDone(future[name]) /\ future[name].result # <<>>
                    THEN Insert(timeSeries[name], future[name].result)
                    ELSE timeSeries[name]]
    /\ cursor' = [name \in SeriesNames |->
                    IF name = "temperature" THEN cursor[name]
                    ELSE IF IsFutureDone(future[name]) /\ future[name].result # <<>>
                    THEN future[name].result[Len(future[name].result)]
                    ELSE IF IsFutureDone(future["temperature"])
                            /\ future["temperature"].result # <<>>
                    THEN future["temperature"].result[Len(future["temperature"].result)]
                    ELSE cursor[name]]
    /\ future' = [name \in SeriesNames |->
                    IF IsFutureDone(future[name]) THEN NewTask ELSE future[name]]
    /\ UNCHANGED <<rpc, showConnDialog, errorMsg, dbLocked, dbHandle, released,
                   store, ahead, connects>>
    /\ UNCHANGED ingressVars
    /\ UNCHANGED simVars

\* variant of UpdateData: the next read is started only after a batch that
\* is not empty
UpdateData_StopsOnEmpty ==
    /\ rpc = "idle"
    /\ \E name \in SeriesNames : IsFutureDone(future[name])
    /\ timeSeries' = [name \in SeriesNames |->
                    IF IsFutureDone(future[name]) /\ future[name].result # <<>>
                    THEN Insert(timeSeries[name], future[name].result)
                    ELSE timeSeries[name]]
    /\ cursor' = [name \in SeriesNames |->
                    IF IsFutureDone(future[name]) /\ future[name].result # <<>>
                    THEN future[name].result[Len(future[name].result)]
                    ELSE cursor[name]]
    /\ future' = [name \in SeriesNames |->
                    IF IsFutureDone(future[name])
                    THEN IF future[name].result # <<>> THEN NewTask ELSE NoTask
                    ELSE future[name]]
    /\ UNCHANGED <<rpc, showConnDialog, errorMsg, dbLocked, dbHandle, released,
                   store, ahead, connects>>
    /\ UNCHANGED ingressVars
    /\ UNCHANGED simVars

\* UpdateData in a frame in which a future is done: get, Insert and the
\* cursor for a batch that is not empty, and the next std::async
UpdateData ==
    /\ rpc = "idle"
    /\ \E name \in SeriesNames : IsFutureDone(future[name])
    /\ timeSeries' = [name \in SeriesNames |->
                    IF IsFutureDone(future[name]) /\ future[name].result # <<>>
                    THEN Insert(timeSeries[name], future[name].result)
                    ELSE timeSeries[name]]
    /\ cursor' = [name \in SeriesNames |->
                    IF IsFutureDone(future[name]) /\ future[name].result # <<>>
                    THEN future[name].result[Len(future[name].result)]
                    ELSE cursor[name]]
    /\ future' = [name \in SeriesNames |->
                    IF IsFutureDone(future[name]) THEN NewTask ELSE future[name]]
    /\ UNCHANGED <<rpc, showConnDialog, errorMsg, dbLocked, dbHandle, released,
                   store, ahead, connects>>
    /\ UNCHANGED ingressVars
    /\ UNCHANGED simVars

\* GetNewMeasurements up to the query text: the cursor is read through the reference
TaskBegin(name, slot) ==
    /\ TaskOf(name, slot).st = "started"
    /\ SetTask(name, slot, [TaskOf(name, slot) EXCEPT !.st = "waiting",
                                                      !.since = cursor[name]])
    /\ UNCHANGED <<rpc, showConnDialog, errorMsg, dbLocked, dbHandle, cursor,
                   timeSeries, store, ahead, connects>>
    /\ UNCHANGED ingressVars
    /\ UNCHANGED simVars

\* variant of TaskLock: the query starts without the mutex
TaskLock_NoMutex(name, slot) ==
    /\ TaskOf(name, slot).st = "waiting"
    /\ dbLocked' = TRUE
    /\ SetTask(name, slot, [TaskOf(name, slot) EXCEPT !.st = "querying"])
    /\ UNCHANGED <<rpc, showConnDialog, errorMsg, dbHandle, cursor,
                   timeSeries, store, ahead, connects>>
    /\ UNCHANGED ingressVars
    /\ UNCHANGED simVars

\* Db::Query takes the mutex
TaskLock(name, slot) ==
    /\ TaskOf(name, slot).st = "waiting"
    /\ ~dbLocked
    /\ dbLocked' = TRUE
    /\ SetTask(name, slot, [TaskOf(name, slot) EXCEPT !.st = "querying"])
    /\ UNCHANGED <<rpc, showConnDialog, errorMsg, dbHandle, cursor,
                   timeSeries, store, ahead, connects>>
    /\ UNCHANGED ingressVars
    /\ UNCHANGED simVars

\* variant of TaskQuery: the task inserts the points into the buffer itself
TaskQuery_InsertsItself(name, slot) ==
    /\ TaskOf(name, slot).st = "querying"
    /\ dbLocked' = FALSE
    /\ \/ \E batch \in QueryResults(name, TaskOf(name, slot).since) :
             /\ SetTask(name, slot, [TaskOf(name, slot) EXCEPT !.st = "done"])
             /\ timeSeries' = [timeSeries EXCEPT ![name] = Insert(@, batch)]
       \/ /\ SetTask(name, slot, [TaskOf(name, slot) EXCEPT !.st = "done", !.failed = TRUE])
          /\ timeSeries' = timeSeries
    /\ UNCHANGED <<rpc, showConnDialog, errorMsg, dbHandle, cursor,
                   store, ahead, connects>>
    /\ UNCHANGED ingressVars
    /\ UNCHANGED simVars

\* db->query returns the points, or throws InfluxDBException and the batch
\* stays empty; the mutex is given back and GetNewMeasurements returns
TaskQuery(name, slot) ==
    /\ TaskOf(name, slot).st = "querying"
    /\ dbLocked' = FALSE
    /\ \/ \E batch \in QueryResults(name, TaskOf(name, slot).since) :
             SetTask(name, slot, [TaskOf(name, slot) EXCEPT !.st = "done", !.result = batch])
       \/ SetTask(name, slot, [TaskOf(name, slot) EXCEPT !.st = "done", !.failed = TRUE])
    /\ UNCHANGED <<rpc, showConnDialog, errorMsg, dbHandle, cursor,
                   timeSeries, store, ahead, connects>>
    /\ UNCHANGED ingressVars
    /\ UNCHANGED simVars

\* a point with time stamp t reaches the series in the store (written by the
\* ingress service)
StoreWrite(name, t) ==
    /\ t \notin store[name]
    /\ store' = [store EXCEPT ![name] = @ \cup {t}]
    /\ ahead' = [ahead EXCEPT ![name] = IF t > cursor[name] THEN @ \cup {t} ELSE @]
    /\ UNCHANGED <<rpc, showConnDialog, errorMsg, dbLocked, dbHandle, future,
                   released, cursor, timeSeries, connects>>
    /\ UNCHANGED ingressVars
    /\ UNCHANGED simVars

InitGui ==
    /\ argv = <<"ingress">>
    /\ IngressStart
    /\ GuiStart
    /\ SimIdle

NextGui ==
    \/ ClickConnect
    \/ JoinTemperature
    \/ JoinHumidity
    \/ ClickCancel
    \/ MenuConnect
    \/ UpdateData
    \/ \E name \in SeriesNames, slot \in Slots : TaskBegin(name, slot)
    \/ \E name \in SeriesNames, slot \in Slots : TaskLock(name, slot)
    \/ \E name \in SeriesNames, slot \in Slots : TaskQuery(name, slot)
    \/ \E name \in SeriesNames, t \in 1..MaxTime : StoreWrite(name, t)

SpecGui == InitGui /\ [][NextGui]_vars

GuiTypeOK ==
    /\ rpc \in {"idle", "joinTemperature", "joinHumidity"}
    /\ dbHandle \in 0..MaxConnects
    /\ \A name \in SeriesNames :
          /\ future[name].st \in {"none", "started", "waiting", "querying", "done"}
          /\ released[name].st \in {"none", "started", "waiting", "querying", "done"}

----------------------------------------------------------------------------
(* C16: at most one query is in flight on the store connection at any     *)
(* time, and the connection handle is never replaced while a query on it  *)
(* is executing.                                                          *)

\* the tasks that are inside db->query
InFlight == {h \in SeriesNames \X Slots : TaskOf(h[1], h[2]).st = "querying"}

\* the tasks that are blocked on the mutex of Db
Blocked == {h \in SeriesNames \X Slots : TaskOf(h[1], h[2]).st = "waiting"}

C16_OneQueryInFlight ==
    /\ [](Cardinality(InFlight) <= 1)
    /\ [][dbHandle' # dbHandle => InFlight = {}]_vars

\* after a second connect, one task queries while another one waits for the mutex
C16_Witness ==
    /\ dbHandle = 2
    /\ InFlight # {}
    /\ Blocked # {}

----------------------------------------------------------------------------
(* C17: for each series, at no time are two read tasks of that series     *)
(* running, for any sequence of frames and clicks on the Connect button,  *)
(* a re-connect while reads are in flight included.                       *)

C17_OneTaskPerSeries ==
    \A name \in SeriesNames : ~(Running(future[name]) /\ Running(released[name]))

----------------------------------------------------------------------------
(* C18: the series buffers are modified only by the render thread: no     *)
(* step of a read task changes a buffer, and a buffer changes only when   *)
(* UpdateData collects the finished future of its series and inserts the  *)
(* batch.                                                                 *)

\* a task went one step further in GetNewMeasurements
Advanced(old, new) ==
    \/ old.st = "started" /\ new.st = "waiting"
    \/ old.st = "waiting" /\ new.st = "querying"
    \/ old.st = "querying" /\ new.st = "done"

C18_BuffersOnlyOnRenderThread ==
    [][/\ (\E name \in SeriesNames :
              \/ Advanced(future[name], future'[name])
              \/ Advanced(released[name], released'[name]))
          => timeSeries' = timeSeries
       /\ \A name \in SeriesNames :
             timeSeries'[name] # timeSeries[name]
                => /\ rpc = "idle"
                   /\ IsFutureDone(future[name])
                   /\ timeSeries'[name] = Insert(timeSeries[name], future[name].result)
                   /\ future'[name] = NewTask]_vars

\* a buffer holds points while the next read of its series is inside the query
C18_Witness ==
    \E name \in SeriesNames :
       /\ timeSeries[name] # <<>>
       /\ future[name].st = "querying"

----------------------------------------------------------------------------
(* C19: no point that reached a series of the store with a time stamp     *)
(* later than the cursor of the series is skipped, whatever the order in  *)
(* which points arrive: the cursor never moves to or past such a point    *)
(* unless the point is in the buffer.  (The cursor never moves back and a *)
(* query asks for the points later than the cursor, so a point left       *)
(* behind by the cursor is not appended by any later step.)               *)

\* the time stamps in a buffer
Appended(name) == {timeSeries[name][i] : i \in 1..Len(timeSeries[name])}

C19_NoPointLeftBehind ==
    \A name \in SeriesNames :
       \A p \in ahead[name] : p \in Appended(name) \/ p > cursor[name]

\* the cursor of a series never moves back
CursorNeverMovesBack ==
    [][\A name \in SeriesNames : cursor'[name] >= cursor[name]]_vars

\* every batch that is collected holds only points later than the cursor
BatchLaterThanCursor ==
    \A name \in SeriesNames :
       IsFutureDone(future[name]) =>
          \A i \in 1..Len(future[name].result) : future[name].result[i] > cursor[name]

----------------------------------------------------------------------------
(* C20: a failed connection attempt keeps the connect dialog open with    *)
(* the error shown and launches no read task; a connection is attempted   *)
(* only by a press of the Connect button of the open dialog.              *)

\* the step is a connection attempt that failed
FailedAttempt == connects' # connects /\ errorMsg' # ""

C20_FailedConnectKeepsDialog ==
    [][/\ FailedAttempt
          => /\ showConnDialog'
             /\ rpc' = "idle"
             /\ future' = future
             /\ released' = released
       /\ (dbHandle' # dbHandle \/ errorMsg' # errorMsg \/ connects' # connects)
          => /\ rpc = "idle"
             /\ showConnDialog
             /\ connects' = connects + 1]_vars

\* both attempts failed: the dialog is open with the error and no task was ever started
C20_Witness ==
    /\ connects = 2
    /\ errorMsg # ""
    /\ showConnDialog
    /\ \A name \in SeriesNames : future[name] = NoTask

----------------------------------------------------------------------------
(* C21: the client of the ingress service is created with the client id   *)
(* held in its configuration, Config.clientId = "ingress", whatever the   *)
(* command line.                                                          *)

C21_ClientIdFromConfig ==
    \A i \in 1..Len(log) :
       log[i].op = "mqtt::client" =>
          /\ log[i].arg[2] = config.clientId
          /\ log[i].arg[2] = ClientId

----------------------------------------------------------------------------
(* C23: once a series is polled it stays polled: a finished read, whether *)
(* it returned points, nothing or failed in the query, is replaced by a   *)
(* new read and by nothing else, every finished read is replaced in the   *)
(* frame that replaces one, and replacing a failed read leaves the buffer *)
(* and the cursor of the series as they were.                             *)

\* the step is a frame in which UpdateData collects a finished read
Collects ==
    /\ rpc = "idle"
    /\ connects' = connects
    /\ \E name \in SeriesNames : IsFutureDone(future[name]) /\ future'[name] # future[name]

C23_PollingNeverStops ==
    [][\A name \in SeriesNames :
          /\ future[name].st # "none" => future'[name].st # "none"
          /\ IsFutureDone(future[name]) /\ future'[name] # future[name]
                => future'[name] = NewTask
          /\ IsFutureDone(future[name]) /\ Collects => future'[name] = NewTask
          /\ IsFutureDone(future[name]) /\ future[name].failed
                => /\ timeSeries'[name] = timeSeries[name]
                   /\ cursor'[name] = cursor[name]]_vars

\* a read that was issued after a read with points has failed in the query
C23_Witness ==
    \E name \in SeriesNames :
       /\ timeSeries[name] # <<>>
       /\ IsFutureDone(future[name])
       /\ future[name].failed

----------------------------------------------------------------------------
(* C25: the cursor of a series is written only in a step of the render    *)
(* thread before which no read task of that series is running, neither    *)
(* the task of the future nor a task being replaced.                      *)

C25_CursorWrittenWhileNoTaskRuns ==
    [][\A name \in SeriesNames :
          cursor'[name] # cursor[name]
             => /\ rpc = "idle"
                /\ ~Running(future[name])
                /\ ~Running(released[name])]_vars

\* the cursor of a series has been written and a task of the series, started
\* afterwards, is about to read it
C25_Witness ==
    \E name \in SeriesNames :
       /\ cursor[name] # CursorStart
       /\ future[name].st = "started"

----------------------------------------------------------------------------
(* C26: no point of the store is appended to a buffer more than once,     *)
(* also when the store answers with a batch that is not in ascending      *)
(* time stamp order.                                                      *)

C26_NoPointAppendedTwice ==
    \A name \in SeriesNames :
       \A i, j \in 1..Len(timeSeries[name]) :
          i # j => timeSeries[name][i] # timeSeries[name][j]

----------------------------------------------------------------------------
(* C27: the cursor of a series never moves backwards, and it changes only *)
(* in a frame that collects a batch of that series that is not empty.     *)

C27_CursorMonotone ==
    [][\A name \in SeriesNames :
          /\ cursor'[name] >= cursor[name]
          /\ cursor'[name] # cursor[name]
                => /\ Collects
                   /\ IsFutureDone(future[name])
                   /\ future[name].result # <<>>]_vars

\* the cursor of a series has moved and the next batch of the series, not
\* empty, is ready to be collected
C27_Witness ==
    \E name \in SeriesNames :
       /\ cursor[name] # CursorStart
       /\ IsFutureDone(future[name])
       /\ future[name].result # <<>>

----------------------------------------------------------------------------
(* C28: a Connect call that reports failure leaves the connection handle  *)
(* of the wrapper as it was.                                              *)

C28_FailedConnectKeepsHandle ==
    [][FailedAttempt => dbHandle' = dbHandle]_vars

----------------------------------------------------------------------------
(* C29: Db::Query is never executed while the wrapper holds no handle:    *)
(* a task exists only when a handle is held, the first task of a series   *)
(* is launched only by a Connect that succeeded, and as long as no task   *)
(* was launched no task runs and both buffers are empty.                  *)

C29_NoQueryWithoutHandle ==
    /\ [](\A name \in SeriesNames, slot \in Slots :
             TaskOf(name, slot).st # "none" => dbHandle # 0)
    /\ [](future["temperature"] = NoTask
             => \A name \in SeriesNames :
                   /\ future[name] = NoTask
                   /\ released[name] = NoTask
                   /\ timeSeries[name] = <<>>)
    /\ [][\A name \in SeriesNames :
             future[name].st = "none" /\ future'[name].st # "none"
                => \/ connects' = connects + 1 /\ errorMsg' = "" /\ dbHandle' # 0
                   \/ rpc = "joinTemperature"]_vars

\* after a failed attempt and Cancel: points in the store, no handle, no task
C29_Witness ==
    /\ connects = 1
    /\ dbHandle = 0
    /\ ~showConnDialog
    /\ \A name \in SeriesNames :
          /\ store[name] # {}
          /\ future[name] = NoTask
          /\ timeSeries[name] = <<>>

----------------------------------------------------------------------------
(* C30: when consume_message returns without a message, the iteration     *)
(* parses nothing and writes nothing, main is back at the receive call    *)
(* and has not ended: the call that follows in the log, if any, is the    *)
(* next consume_message.                                                  *)

\* log[i] is a consume_message call that returned nullptr
IsNull(i) == IsConsume(i) /\ log[i].ok /\ log[i].out = <<>>

C30_NullMessageIsSkipped ==
    \A i \in 1..Len(log) :
       IsNull(i) =>
          /\ i < Len(log) => IsConsume(i + 1)
          /\ i = Len(log) =>
                /\ pc = "consume"
                /\ exitStatus = NoExit
                /\ ret = "none"
                /\ temperature = DefaultMeasurement
                /\ humidity = DefaultMeasurement

\* a receive without a message was followed by a message that was written
C30_Witness ==
    /\ \E i \in 1..(Len(log) - 1) : IsNull(i) /\ IsMessage(i + 1)
    /\ Len(CallsOf("write")) = 2

----------------------------------------------------------------------------
(* The sensor simulator, its MemoryPersistence, and the broker between    *)
(* the simulator and the ingress service                                  *)

\* the for loop of ParseConfig of the simulator from C index i on
RECURSIVE SimParseConfigFrom(_, _, _)
SimParseConfigFrom(args, i, cfg) ==
    IF ~(i < Len(args)) THEN cfg
    ELSE IF args[i + 1] = "--mqtt" /\ i + 1 < Len(args)
         THEN SimParseConfigFrom(args, i + 2, [cfg EXCEPT !.mqttUrl = args[i + 2]])
         ELSE SimParseConfigFrom(args, i + 1, cfg)

SimParseConfig(args) ==
    SimParseConfigFrom(args, 1,
        [mqttUrl |-> "", clientId |-> SimClientId, topic |-> SimTopic, qos |-> SimQos])

SimValidateConfig(cfg) == cfg.mqttUrl # ""

SimCommandLines ==
    { <<"fake-dht">>,
      <<"fake-dht", "--mqtt">>,
      <<"fake-dht", "--mqtt", "localhost:1883">> }

\* GetRandomPayload: the time of the reading and two numbers in range
SimPayloads ==
    [json : {TRUE}, timestamp : {<<TimeText(1)>>, <<TimeText(2)>>},
     temperature : {<<NumText(20)>>}, humidity : {<<NumText(45)>>}]

\* main, lines 191-198
SimConfigure ==
    /\ simPc = "start"
    /\ IF SimValidateConfig(SimParseConfig(simArgv))
       THEN simPc' = "client" /\ simExit' = simExit
       ELSE simPc' = "exit" /\ simExit' = 1
    /\ UNCHANGED <<simArgv, published, routed, inbox, isOpen, persistStore, persistCall>>
    /\ UNCHANGED <<ingressVars, guiVars>>

\* main, lines 201-210: the client is constructed outside the try block
SimCreateClient ==
    /\ simPc = "client"
    /\ \/ simPc' = "connect" /\ simExit' = simExit
       \/ simPc' = "exit" /\ simExit' = Aborted
    /\ UNCHANGED <<simArgv, published, routed, inbox, isOpen, persistStore, persistCall>>
    /\ UNCHANGED <<ingressVars, guiVars>>

\* main, lines 214-217
SimConnect ==
    /\ simPc = "connect"
    /\ \/ simPc' = "publish" /\ simExit' = simExit
       \/ simPc' = "exit" /\ simExit' = 1
    /\ UNCHANGED <<simArgv, published, routed, inbox, isOpen, persistStore, persistCall>>
    /\ UNCHANGED <<ingressVars, guiVars>>

\* main, lines 222-227: one round of the loop
SimPublish ==
    /\ simPc = "publish"
    /\ Len(published) < MaxPublish
    /\ \/ \E payload \in SimPayloads :
             LET cfg == SimParseConfig(simArgv)
             IN /\ published' = Append(published,
                                    [topic |-> cfg.topic, qos |-> cfg.qos, payload |-> payload])
                /\ simPc' = "publish"
                /\ simExit' = simExit
       \/ /\ published' = published
          /\ simPc' = "exit"
          /\ simExit' = 1
    /\ UNCHANGED <<simArgv, routed, inbox, isOpen, persistStore, persistCall>>
    /\ UNCHANGED <<ingressVars, guiVars>>

\* the broker deals with the next published message: it is queued for the
\* session of the ingress service when its topic is the topic of the
\* subscription (ingress.cpp line 172), and has no receiver otherwise
BrokerRoute ==
    /\ routed < Len(published)
    /\ routed' = routed + 1
    /\ inbox' = IF published[routed + 1].topic = DefaultConfig.topic
                THEN Append(inbox, published[routed + 1].payload)
                ELSE inbox
    /\ UNCHANGED <<simArgv, simPc, simExit, published, isOpen, persistStore, persistCall>>
    /\ UNCHANGED <<ingressVars, guiVars>>

\* keys and data the client library hands to the persistence
PersistKeys == {"s-1", "r-1"}
PersistData == {"PUBLISH", "PUBREL"}

\* MemoryPersistence::contains_key
ContainsKey(key) == \E e \in persistStore : e[1] = key

\* MemoryPersistence::keys
Keys == {e[1] : e \in persistStore}

\* a call of a member with a key: whether the key was stored when it was
\* called, and whether the call threw mqtt::persistence_exception
PersistCall(op, key, threw) ==
    [op |-> op, key |-> key, had |-> ContainsKey(key), threw |-> threw]

\* MemoryPersistence::open
PersistOpen ==
    /\ isOpen' = TRUE
    /\ persistCall' = PersistCall("open", "", FALSE)
    /\ UNCHANGED <<simArgv, simPc, simExit, published, routed, inbox, persistStore>>
    /\ UNCHANGED <<ingressVars, guiVars>>

\* MemoryPersistence::close
PersistClose ==
    /\ isOpen' = FALSE
    /\ persistCall' = PersistCall("close", "", FALSE)
    /\ UNCHANGED <<simArgv, simPc, simExit, published, routed, inbox, persistStore>>
    /\ UNCHANGED <<ingressVars, guiVars>>

\* MemoryPersistence::clear
PersistClear ==
    /\ persistStore' = {}
    /\ persistCall' = PersistCall("clear", "", FALSE)
    /\ UNCHANGED <<simArgv, simPc, simExit, published, routed, inbox, isOpen>>
    /\ UNCHANGED <<ingressVars, guiVars>>

\* MemoryPersistence::put: store[key] = the buffers joined
PersistPut(key, data) ==
    /\ persistStore' = {e \in persistStore : e[1] # key} \cup {<<key, data>>}
    /\ persistCall' = PersistCall("put", key, FALSE)
    /\ UNCHANGED <<simArgv, simPc, simExit, published, routed, inbox, isOpen>>
    /\ UNCHANGED <<ingressVars, guiVars>>

\* MemoryPersistence::get: the data of a stored key, persistence_exception otherwise
PersistGet(key) ==
    /\ persistCall' = PersistCall("get", key, ~ContainsKey(key))
    /\ UNCHANGED <<simArgv, simPc, simExit, published, routed, inbox, isOpen, persistStore>>
    /\ UNCHANGED <<ingressVars, guiVars>>

\* MemoryPersistence::remove: erase when found, then the throw statement that
\* follows the if
PersistRemove(key) ==
    /\ persistStore' = {e \in persistStore : e[1] # key}
    /\ persistCall' = PersistCall("remove", key, TRUE)
    /\ UNCHANGED <<simArgv, simPc, simExit, published, routed, inbox, isOpen>>
    /\ UNCHANGED <<ingressVars, guiVars>>

InitSim ==
    /\ simArgv \in SimCommandLines
    /\ SimStart
    /\ argv = <<"ingress">>
    /\ IngressStart
    /\ GuiStart

NextSim ==
    \/ SimConfigure
    \/ SimCreateClient
    \/ SimConnect
    \/ SimPublish
    \/ BrokerRoute
    \/ PersistOpen
    \/ PersistClose
    \/ PersistClear
    \/ \E key \in PersistKeys, data \in PersistData : PersistPut(key, data)
    \/ \E key \in PersistKeys : PersistGet(key)
    \/ \E key \in PersistKeys : PersistRemove(key)

SpecSim == InitSim /\ [][NextSim]_vars

SimTypeOK ==
    /\ simPc \in {"start", "client", "connect", "publish", "exit"}
    /\ simExit \in {NoExit, 1, Aborted}
    /\ routed \in 0..Len(published)
    /\ Len(published) <= MaxPublish
    /\ Keys \subseteq PersistKeys
    /\ isOpen \in BOOLEAN

----------------------------------------------------------------------------
(* C22: the simulator publishes on the topic and with the QoS the ingress *)
(* service subscribes with, so that every reading the broker has dealt    *)
(* with is queued for the ingress service (and then written as two        *)
(* points).                                                               *)

C22_PublishedReachesIngress ==
    /\ \A i \in 1..Len(published) :
          /\ published[i].topic = DefaultConfig.topic
          /\ published[i].qos = DefaultConfig.qos
    /\ Len(inbox) = routed

----------------------------------------------------------------------------
(* C24: remove(k) on a stored key erases it and returns normally; it      *)
(* raises a persistence exception only when the key is not stored.        *)

C24_RemoveReturnsNormally ==
    persistCall.op = "remove" =>
       /\ ~ContainsKey(persistCall.key)
       /\ persistCall.threw <=> ~persistCall.had

====
